---------------------------- MODULE Spec2Model ----------------------------
(***************************************************************************)
(* Model of boards/rp-pico/examples/pico_usb_serial.rs: the start-up bus   *)
(* reset, the one-shot banner with its device search, the USB serial echo  *)
(* loop with its status LED, and the ADC re-sampling.                      *)
(*                                                                         *)
(* The program is one thread.  Every call into a peripheral (timer, USB    *)
(* serial port, ADC, 1-Wire bus) is an input: its result is chosen with \E *)
(* from the results its signature allows.  pc is the program's position.   *)
(*                                                                         *)
(* The 64-bit timer count is kept as its sequence of decimal digits (most  *)
(* significant first, no leading zero): the values near 2^64 do not fit    *)
(* the model checker's integers, and the digits are what `{}` formats.     *)
(***************************************************************************)
EXTENDS Naturals, Sequences, FiniteSets

(***************************************************************************)
(* Bounds of the model.                                                    *)
(***************************************************************************)
\* Longest chunk one serial.read returns in the model (the code allows 64).
MaxCount == 2
\* Number of address bits walked by one search pass (the bus uses 64).
AddrBits == 3
\* Largest number of devices on the bus in the search specification.
MaxDevices == 3
\* Calls of search_next made after the first None in the search specification.
MaxExtraCalls == 1

(***************************************************************************)
(* Program constants.                                                      *)
(***************************************************************************)
\* let mut buf = [0u8; 64];
BufCap == 64
\* let mut text: String<64>
TextCap == 64
\* timer.get_counter().ticks() >= 5_000_000
Threshold == <<5, 0, 0, 0, 0, 0, 0>>

(***************************************************************************)
(* Input domains.                                                          *)
(***************************************************************************)
\* Timer readings: zero, threshold - 1, the threshold, and u64::MAX.
TickValues ==
    { <<0>>,
      <<4, 9, 9, 9, 9, 9, 9>>,
      Threshold,
      <<1, 8, 4, 4, 6, 7, 4, 4, 0, 7, 3, 7, 0, 9, 5, 5, 1, 6, 1, 5>> }

\* Received bytes: 'A', '`', 'a', 'z', '{' and 0xE1 ('a' with the top bit set).
ByteValues == {65, 96, 97, 122, 123, 225}

\* Readings of the 12-bit ADC.
AdcValues == {0, 4095}

\* The chunks serial.read can deliver: 1 .. MaxCount bytes (at most BufCap).
Chunks ==
    UNION { [1..n -> ByteValues] : n \in 1..(IF MaxCount < BufCap THEN MaxCount ELSE BufCap) }

\* 1-Wire addresses, bit 1 transmitted first.
Addresses == [1..AddrBits -> {0, 1}]

AddrLow == [i \in 1..AddrBits |-> 0]

AddrHigh == [i \in 1..AddrBits |-> IF i = AddrBits THEN 1 ELSE 0]

\* Buses the program is run against: empty, one device, two devices.
MainBuses == SUBSET {AddrLow, AddrHigh}

VARIABLES
    pc,          \* position of the program
    reset_res,   \* result of wire.reset: "none" (not called), "ok", "err"
    said_hello,  \* let mut said_hello
    pin_state,   \* let mut pin_state
    led_pin,     \* level of gpio26
    reading,     \* let mut reading: u16
    search,      \* let mut search = DeviceSearch::new()
    devices,     \* the devices on the 1-Wire bus
    now,         \* last value read from the timer
    buf,         \* buf[..count] of the current iteration
    wr_ptr,      \* let mut wr_ptr
    raw,         \* history: the chunk as serial.read delivered it
    sent,        \* history: bytes the transport accepted from this chunk
    log,         \* history: operations of the current loop iteration, in order
    op,          \* history: the last operation performed
    seenGE,      \* history: some iteration's check read a tick >= Threshold
    monotone,    \* history: the timer readings so far never decreased
    hello_count, \* history: number of greeting writes
    m_odd,       \* history: parity of the echo writes accepted with length > 0
    found,       \* history: addresses search_next returned, in order
    search_res,  \* history: kind of the last search_next result
    extra_calls, \* history: search_next calls made after the first None
    first_ge,    \* history: this iteration's check is the first to read >= Threshold
    adc_init,    \* history: the ADC sample taken before the loop, <<>> before it
    banner_adc   \* history: the ADC value formatted into the banner, <<>> before it

vars ==
    << pc, reset_res, said_hello, pin_state, led_pin, reading, search, devices,
       now, buf, wr_ptr, raw, sent, log, op, seenGE, monotone, hello_count,
       m_odd, found, search_res, extra_calls, first_ge,
                    adc_init, banner_adc >>

(***************************************************************************)
(* Pure helpers.                                                           *)
(***************************************************************************)
\* a < b on u64 values given by their decimal digits.
TickLess(a, b) ==
    \/ Len(a) < Len(b)
    \/ /\ Len(a) = Len(b)
       /\ \E i \in 1..Len(a) :
            /\ a[i] < b[i]
            /\ \A j \in 1..(i - 1) : a[j] = b[j]

\* a >= b on u64 values.
TickGE(a, b) == ~TickLess(a, b)

\* Mutant of BannerDue: the comparison is strict.
BannerDue_strict(said, t) == ~said /\ TickLess(Threshold, t)

\* BannerDue without the latch: the banner is due whenever the tick is at or
\* above the threshold.
BannerDue_unlatched(said, t) == TickGE(t, Threshold)

\* if !said_hello && timer.get_counter().ticks() >= 5_000_000
BannerDue(said, t) == ~said /\ TickGE(t, Threshold)

RECURSIVE DecLen(_)
\* Number of characters `{}` formats an unsigned integer to.
DecLen(n) == IF n < 10 THEN 1 ELSE 1 + DecLen(n \div 10)

\* Length of "Reset succeeded. Pulled up: {}" and writeln!'s newline.
ResetTextLen(pulled_up) == 28 + (IF pulled_up THEN 4 ELSE 5) + 1

\* BannerTextLen with four characters counted after each number, as if
\* writeln! ended the line with "\r\n" itself.
BannerTextLen_wideNewline(time, adc) == (21 + Len(time) + 4) + (13 + DecLen(adc) + 4)

\* Length of the two writeln! lines of the banner: "Current timer ticks: {}\r\n"
\* and "ADC reading: {}\r\n", each followed by writeln!'s newline.
BannerTextLen(time, adc) == (21 + Len(time) + 3) + (13 + DecLen(adc) + 3)

\* device.family_code(): the first byte of the address.
family_code(addr) ==
    LET n == IF AddrBits < 8 THEN AddrBits ELSE 8
        W[k \in 0..n] == IF k = n THEN 0 ELSE addr[k + 1] + 2 * W[k + 1]
    IN  W[0]

\* Number of characters `{:x}` formats a byte to.
HexLen(b) == IF b < 16 THEN 1 ELSE 2

\* Length of "\r\nFound device with family code: 0x{:x}\r\n" and the newline.
FoundTextLen(addr) == 35 + HexLen(family_code(addr)) + 3

\* Mutant of make_ascii_uppercase: bit 5 is cleared in every byte.
make_ascii_uppercase_mask(b) == IF (b \div 32) % 2 = 1 THEN b - 32 ELSE b

\* u8::make_ascii_uppercase: 'a'..='z' lose bit 5, every other byte is kept.
make_ascii_uppercase(b) == IF b >= 97 /\ b <= 122 THEN b - 32 ELSE b

\* buf.iter_mut().take(count).for_each(|b| b.make_ascii_uppercase())
Uppercased(bytes) == [i \in 1..Len(bytes) |-> make_ascii_uppercase(bytes[i])]

\* Mutant of AdvancePtr: the slice restarts at the last accepted byte.
AdvancePtr_offByOne(ptr, len) ==
    IF len = 0 THEN ptr ELSE SubSeq(ptr, len, Len(ptr))

\* wr_ptr = &wr_ptr[len..]
AdvancePtr(ptr, len) == SubSeq(ptr, len + 1, Len(ptr))

\* The leading bytes a write that returns Ok(len) took from the slice offered.
Accepted(ptr, len) == SubSeq(ptr, 1, len)

\* Mutant of StepAfter: the ADC is sampled before the transport is serviced.
StepAfter_swapped(step) ==
    CASE step = "banner"    -> "adc"
      [] step = "adc"       -> "poll"
      [] step = "transport" -> "check"

\* The order of the three steps of the loop body, and the jump back to its head.
StepAfter(step) ==
    CASE step = "banner"    -> "poll"
      [] step = "transport" -> "adc"
      [] step = "adc"       -> "check"

\* Whether operation e is in the log of the current iteration.
Logged(e) == \E i \in 1..Len(log) : log[i] = e

\* The log with e added, consecutive repetitions of e kept as one entry.
LogOnce(l, e) == IF l # <<>> /\ l[Len(l)] = e THEN l ELSE Append(l, e)

(***************************************************************************)
(* Device Search Engine (onewire::OneWire::search_next, a dependency whose *)
(* code is outside the repository): the classic 1-Wire binary search of    *)
(* section 4.1 of the specification.  All devices answer after the pass's  *)
(* reset; the line is a wired AND, so a bit reads 1 only when every device *)
(* still taking part sends 1.  Addresses on the bus are taken as valid, so *)
(* the trailing check value is not modelled.                               *)
(***************************************************************************)
\* DeviceSearch::new(): no address bit known, no discrepancy, not done.
DeviceSearch_new ==
    [address |-> [i \in 1..AddrBits |-> 0], last_discrepancy |-> 0, done |-> FALSE]

\* Mutant of BranchDir: the 1-branch of a fresh discrepancy is taken first.
BranchDir_oneFirst(i, last_discrepancy, address) ==
    IF i < last_discrepancy THEN address[i] ELSE 1

\* The bit written at a position where the devices disagree: below the stored
\* discrepancy the previous path is followed, at it the 1-branch is taken,
\* above it the 0-branch is explored first.
BranchDir(i, last_discrepancy, address) ==
    IF i < last_discrepancy THEN address[i]
    ELSE IF i = last_discrepancy THEN 1 ELSE 0

RECURSIVE Walk(_, _, _, _, _)
\* One pass over the address bits i..AddrBits with the devices P still taking
\* part: the address resolved, the last position where the 0-branch was taken
\* at a conflict, or an error when true and complement bit both read 1.
Walk(i, P, address, last_discrepancy, last_zero) ==
    IF i > AddrBits
    THEN [err |-> FALSE, address |-> address, last_zero |-> last_zero]
    ELSE LET bit0 == \A d \in P : d[i] = 1
             bit1 == \A d \in P : d[i] = 0
             dir  == IF ~bit0 /\ ~bit1
                     THEN BranchDir(i, last_discrepancy, address)
                     ELSE IF bit0 THEN 1 ELSE 0
             zero == IF ~bit0 /\ ~bit1 /\ dir = 0 THEN i ELSE last_zero
         IN  IF bit0 /\ bit1
             THEN [err |-> TRUE, address |-> address, last_zero |-> last_zero]
             ELSE Walk(i + 1, {d \in P : d[i] = dir},
                       [address EXCEPT ![i] = dir], last_discrepancy, zero)

\* search_next(state): Ok(None) once the scan is exhausted, Err(NoDevices) when
\* no device answers, else Ok(Some(address)) of the next device; the state
\* keeps the address, the discrepancy to revisit, and the done flag.
search_next(state, bus) ==
    IF state.done
    THEN [res |-> "None", device |-> state.address, state |-> state]
    ELSE LET w == Walk(1, bus, state.address, state.last_discrepancy, 0)
         IN  IF w.err
             THEN [res |-> "Err", device |-> state.address, state |-> state]
             ELSE [res    |-> "Some",
                   device |-> w.address,
                   state  |-> [address          |-> w.address,
                               last_discrepancy |-> w.last_zero,
                               done             |-> w.last_zero = 0]]

(***************************************************************************)
(* The program.                                                            *)
(***************************************************************************)
\* The state when main is entered, led_pin already driven low.
Init ==
    /\ pc = "start"
    /\ reset_res = "none"
    /\ said_hello = FALSE
    /\ pin_state = FALSE
    /\ led_pin = FALSE
    /\ reading = 0
    /\ search = DeviceSearch_new
    /\ devices \in MainBuses
    /\ now = <<0>>
    /\ buf = <<>>
    /\ wr_ptr = <<>>
    /\ raw = <<>>
    /\ sent = <<>>
    /\ log = <<>>
    /\ op = "none"
    /\ seenGE = FALSE
    /\ monotone = TRUE
    /\ hello_count = 0
    /\ m_odd = FALSE
    /\ found = <<>>
    /\ search_res = "none_yet"
    /\ extra_calls = 0
    /\ first_ge = FALSE
    /\ adc_init = <<>>
    /\ banner_adc = <<>>

\* Mutant of Reset: a failed reset is treated like a successful one.
Reset_unchecked ==
    /\ pc = "start"
    /\ \E r \in {"err", "ok"} : reset_res' = r
    /\ op' = "reset"
    /\ pc' = "init"
    /\ UNCHANGED << said_hello, pin_state, led_pin, reading, search, devices,
                    now, buf, wr_ptr, raw, sent, log, seenGE, monotone,
                    hello_count, m_odd, found, search_res, extra_calls, first_ge,
                    adc_init, banner_adc >>

\* match wire.reset(&mut delay): Err(_) enters the notification loop;
\* Ok(pulled_up) formats and writes "Reset succeeded. Pulled up: ..." (the
\* write's result is dropped; writeln!(..).unwrap() halts if the text is full).
Reset ==
    /\ pc = "start"
    /\ \/ /\ reset_res' = "err"
          /\ op' = "reset"
          /\ pc' = "reset_failed"
       \/ /\ \E pulled_up \in BOOLEAN :
                IF ResetTextLen(pulled_up) <= TextCap
                THEN op' = "write_reset_succeeded" /\ pc' = "init"
                ELSE op' = "reset" /\ pc' = "halted"
          /\ reset_res' = "ok"
    /\ UNCHANGED << said_hello, pin_state, led_pin, reading, search, devices,
                    now, buf, wr_ptr, raw, sent, log, seenGE, monotone,
                    hello_count, m_odd, found, search_res, extra_calls, first_ge,
                    adc_init, banner_adc >>

\* Mutant of ResetFailedWrite: the notification is written once and the program
\* goes on.
ResetFailedWrite_once ==
    /\ pc = "reset_failed"
    /\ op' = "write_reset_failed"
    /\ pc' = "init"
    /\ UNCHANGED << reset_res, said_hello, pin_state, led_pin, reading, search,
                    devices, now, buf, wr_ptr, raw, sent, log, seenGE, monotone,
                    hello_count, m_odd, found, search_res, extra_calls, first_ge,
                    adc_init, banner_adc >>

\* loop { let _ = serial.write(b"Reset failed\r\n"); }
ResetFailedWrite ==
    /\ pc = "reset_failed"
    /\ op' = "write_reset_failed"
    /\ pc' = "reset_failed"
    /\ UNCHANGED << reset_res, said_hello, pin_state, led_pin, reading, search,
                    devices, now, buf, wr_ptr, raw, sent, log, seenGE, monotone,
                    hello_count, m_odd, found, search_res, extra_calls, first_ge,
                    adc_init, banner_adc >>

\* The declarations before the loop: the search state, said_hello, pin_state,
\* and the first ADC sample.
Setup ==
    /\ pc = "init"
    /\ search' = DeviceSearch_new
    /\ said_hello' = FALSE
    /\ pin_state' = FALSE
    /\ \E v \in AdcValues : reading' = v
    /\ adc_init' = <<reading'>>
    /\ op' = "adc_read"
    /\ pc' = "check"
    /\ UNCHANGED << reset_res, led_pin, devices, now, buf, wr_ptr, raw, sent,
                    log, seenGE, monotone, hello_count, m_odd, found,
                    search_res, extra_calls, first_ge,
                    banner_adc >>

\* BannerCheck with said_hello derived again from each comparison of the timer
\* with the threshold, instead of being latched.
BannerCheck_unlatched ==
    /\ pc = "check"
    /\ \E t \in TickValues :
         /\ now' = t
         /\ monotone' = (monotone /\ TickGE(t, now))
         /\ seenGE' = (seenGE \/ TickGE(t, Threshold))
         /\ first_ge' = (~seenGE /\ TickGE(t, Threshold))
         /\ said_hello' = TickGE(t, Threshold)
         /\ pc' = IF BannerDue(said_hello, t) THEN "banner" ELSE StepAfter("banner")
    /\ log' = <<"check">>
    /\ op' = "timer_read"
    /\ UNCHANGED << reset_res, pin_state, led_pin, reading, search, devices,
                    buf, wr_ptr, raw, sent, hello_count, m_odd, found,
                    search_res, extra_calls, adc_init, banner_adc >>

\* The head of the loop body: the timer is read and compared with the
\* threshold; when the banner is due, said_hello is latched.  A new iteration
\* starts, so the iteration's log starts again.
BannerCheck ==
    /\ pc = "check"
    /\ \E t \in TickValues :
         /\ now' = t
         /\ monotone' = (monotone /\ TickGE(t, now))
         /\ seenGE' = (seenGE \/ TickGE(t, Threshold))
         /\ first_ge' = (~seenGE /\ TickGE(t, Threshold))
         /\ IF BannerDue(said_hello, t)
            THEN said_hello' = TRUE /\ pc' = "banner"
            ELSE said_hello' = said_hello /\ pc' = StepAfter("banner")
    /\ log' = <<"check">>
    /\ op' = "timer_read"
    /\ UNCHANGED << reset_res, pin_state, led_pin, reading, search, devices,
                    buf, wr_ptr, raw, sent, hello_count, m_odd, found,
                    search_res, extra_calls, adc_init, banner_adc >>

\* The banner up to the search: the greeting is written, the timer is read
\* again, the two lines are formatted into a String<64> (unwrap halts the
\* program when they do not fit), the text and "Searching for devices..." are
\* written.  The results of the writes are dropped.
BannerDiag ==
    /\ pc = "banner"
    /\ hello_count' = hello_count + 1
    /\ banner_adc' = <<reading>>
    /\ \E time \in TickValues :
         /\ now' = time
         /\ monotone' = (monotone /\ TickGE(time, now))
         /\ IF BannerTextLen(time, reading) <= TextCap
            THEN /\ log' = log \o <<"hello", "timer_read", "diag_text", "searching">>
                 /\ op' = "write_searching"
                 /\ pc' = "search"
            ELSE /\ log' = log \o <<"hello", "timer_read">>
                 /\ op' = "timer_read"
                 /\ pc' = "halted"
    /\ UNCHANGED << reset_res, said_hello, pin_state, led_pin, reading, search,
                    devices, buf, wr_ptr, raw, sent, seenGE, m_odd, found,
                    search_res, extra_calls, first_ge,
                    adc_init >>

\* wire.search_next(&mut search, &mut delay).unwrap() and the match on its
\* result: an Err halts the program; Some(device) writes "Device found", formats
\* the family-code line and writes "OK!" or "Something odd happened" by the
\* result of the formatting; None writes "No Devices found...".
BannerSearch ==
    /\ pc = "search"
    /\ LET r == search_next(search, devices)
       IN  /\ search' = r.state
           /\ search_res' = r.res
           /\ found' = IF r.res = "Some" THEN Append(found, r.device) ELSE found
           /\ CASE r.res = "Err" ->
                     /\ log' = log \o <<"search_next">>
                     /\ op' = "search_next"
                     /\ pc' = "halted"
                [] r.res = "Some" ->
                     /\ log' = log \o <<"search_next", "device_found",
                                        IF FoundTextLen(r.device) <= TextCap
                                        THEN "ok" ELSE "odd">>
                     /\ op' = "write_device"
                     /\ pc' = StepAfter("banner")
                [] r.res = "None" ->
                     /\ log' = log \o <<"search_next", "no_devices">>
                     /\ op' = "write_no_devices"
                     /\ pc' = StepAfter("banner")
    /\ UNCHANGED << reset_res, said_hello, pin_state, led_pin, reading, devices,
                    now, buf, wr_ptr, raw, sent, seenGE, monotone, hello_count,
                    m_odd, extra_calls, first_ge,
                    adc_init, banner_adc >>

\* if usb_dev.poll(&mut [&mut serial])
Poll ==
    /\ pc = "poll"
    /\ \E ready \in BOOLEAN :
         pc' = IF ready THEN "read" ELSE StepAfter("transport")
    /\ log' = Append(log, "poll")
    /\ op' = "poll"
    /\ UNCHANGED << reset_res, said_hello, pin_state, led_pin, reading, search,
                    devices, now, buf, wr_ptr, raw, sent, seenGE, monotone,
                    hello_count, m_odd, found, search_res, extra_calls, first_ge,
                    adc_init, banner_adc >>

\* Read with the result of serial.read unwrapped: an error halts the program.
Read_unwrap ==
    /\ pc = "read"
    /\ \/ /\ pc' = "halted"
          /\ UNCHANGED << buf, wr_ptr, raw >>
       \/ \E chunk \in Chunks :
            /\ raw' = chunk
            /\ buf' = Uppercased(chunk)
            /\ wr_ptr' = buf'
            /\ pc' = "echo"
    /\ log' = Append(log, "read")
    /\ op' = "read"
    /\ UNCHANGED << reset_res, said_hello, pin_state, led_pin, reading, search,
                    devices, now, sent, seenGE, monotone, hello_count, m_odd,
                    found, search_res, extra_calls, first_ge,
                    adc_init, banner_adc >>

\* match serial.read(&mut buf): Err(_) and Ok(0) do nothing; Ok(count) turns
\* the first count bytes to upper case and points wr_ptr at them.
Read ==
    /\ pc = "read"
    /\ \/ /\ pc' = StepAfter("transport")
          /\ UNCHANGED << buf, wr_ptr, raw >>
       \/ \E chunk \in Chunks :
            /\ raw' = chunk
            /\ buf' = Uppercased(chunk)
            /\ wr_ptr' = buf'
            /\ pc' = "echo"
    /\ log' = Append(log, "read")
    /\ op' = "read"
    /\ UNCHANGED << reset_res, said_hello, pin_state, led_pin, reading, search,
                    devices, now, sent, seenGE, monotone, hello_count, m_odd,
                    found, search_res, extra_calls, first_ge,
                    adc_init, banner_adc >>

\* EchoWrite with a failed write tried again instead of leaving the loop.
EchoWrite_retry ==
    /\ pc = "echo"
    /\ wr_ptr # <<>>
    /\ \/ \E len \in 0..Len(wr_ptr) :
            /\ wr_ptr' = AdvancePtr(wr_ptr, len)
            /\ sent' = sent \o Accepted(wr_ptr, len)
            /\ pin_state' = ~pin_state
            /\ led_pin' = pin_state'
            /\ m_odd' = IF len > 0 THEN ~m_odd ELSE m_odd
            /\ log' = LogOnce(log, "echo_ok")
            /\ pc' = IF wr_ptr' = <<>> THEN StepAfter("transport") ELSE "echo"
       \/ /\ log' = LogOnce(log, "echo_err")
          /\ pc' = "echo"
          /\ UNCHANGED << wr_ptr, sent, pin_state, led_pin, m_odd >>
    /\ op' = "echo_write"
    /\ UNCHANGED << reset_res, said_hello, reading, search, devices, now, buf,
                    raw, seenGE, monotone, hello_count, found, search_res,
                    extra_calls, first_ge,
                    adc_init, banner_adc >>

\* One turn of `while !wr_ptr.is_empty()`: serial.write(wr_ptr) returns Ok(len)
\* with 0 <= len <= wr_ptr.len(), or an error.  Ok(len) advances wr_ptr and
\* toggles the LED; an error leaves the loop.
EchoWrite ==
    /\ pc = "echo"
    /\ wr_ptr # <<>>
    /\ \/ \E len \in 0..Len(wr_ptr) :
            /\ wr_ptr' = AdvancePtr(wr_ptr, len)
            /\ sent' = sent \o Accepted(wr_ptr, len)
            /\ pin_state' = ~pin_state
            /\ led_pin' = pin_state'
            /\ m_odd' = IF len > 0 THEN ~m_odd ELSE m_odd
            /\ log' = LogOnce(log, "echo_ok")
            /\ pc' = IF wr_ptr' = <<>> THEN StepAfter("transport") ELSE "echo"
       \/ /\ log' = LogOnce(log, "echo_err")
          /\ pc' = StepAfter("transport")
          /\ UNCHANGED << wr_ptr, sent, pin_state, led_pin, m_odd >>
    /\ op' = "echo_write"
    /\ UNCHANGED << reset_res, said_hello, reading, search, devices, now, buf,
                    raw, seenGE, monotone, hello_count, found, search_res,
                    extra_calls, first_ge,
                    adc_init, banner_adc >>

\* AdcSample with the sample taken on every iteration, whatever said_hello is.
AdcSample_always ==
    /\ pc = "adc"
    /\ \E v \in AdcValues : reading' = v
    /\ log' = Append(log, "adc_read")
    /\ op' = "adc_read"
    /\ buf' = <<>>
    /\ wr_ptr' = <<>>
    /\ raw' = <<>>
    /\ sent' = <<>>
    /\ pc' = StepAfter("adc")
    /\ UNCHANGED << reset_res, said_hello, pin_state, led_pin, search, devices,
                    now, seenGE, monotone, hello_count, m_odd, found,
                    search_res, extra_calls, first_ge,
                    adc_init, banner_adc >>

\* AdcSample with buf and wr_ptr kept beyond the end of the iteration, as if
\* they were declared outside the loop.
AdcSample_keepsPending ==
    /\ pc = "adc"
    /\ \/ /\ said_hello
          /\ \E v \in AdcValues : reading' = v
          /\ log' = Append(log, "adc_read")
          /\ op' = "adc_read"
       \/ /\ ~said_hello
          /\ UNCHANGED << reading, log, op >>
    /\ pc' = StepAfter("adc")
    /\ UNCHANGED << reset_res, said_hello, pin_state, led_pin, search, devices,
                    now, buf, wr_ptr, raw, sent, seenGE, monotone, hello_count,
                    m_odd, found, search_res, extra_calls, first_ge,
                    adc_init, banner_adc >>

\* if said_hello == true { reading = adc.read(&mut adc_pin).unwrap(); } and the
\* end of the loop body: buf and wr_ptr of this iteration are gone.
AdcSample ==
    /\ pc = "adc"
    /\ \/ /\ said_hello
          /\ \E v \in AdcValues : reading' = v
          /\ log' = Append(log, "adc_read")
          /\ op' = "adc_read"
       \/ /\ ~said_hello
          /\ UNCHANGED << reading, log, op >>
    /\ buf' = <<>>
    /\ wr_ptr' = <<>>
    /\ raw' = <<>>
    /\ sent' = <<>>
    /\ pc' = StepAfter("adc")
    /\ UNCHANGED << reset_res, said_hello, pin_state, led_pin, search, devices,
                    now, seenGE, monotone, hello_count, m_odd, found,
                    search_res, extra_calls, first_ge,
                    adc_init, banner_adc >>

Next ==
    \/ Reset
    \/ ResetFailedWrite
    \/ Setup
    \/ BannerCheck
    \/ BannerDiag
    \/ BannerSearch
    \/ Poll
    \/ Read
    \/ EchoWrite
    \/ AdcSample

Spec == Init /\ [][Next]_vars

\* The processor keeps executing: a step that can be taken is taken.
FairSpec == Spec /\ WF_vars(Next)

(***************************************************************************)
(* The search engine on its own: search_next called again and again on one *)
(* search state, for every bus of at most MaxDevices devices.              *)
(***************************************************************************)
SearchInit ==
    /\ pc = "search_only"
    /\ reset_res = "ok"
    /\ said_hello = FALSE
    /\ pin_state = FALSE
    /\ led_pin = FALSE
    /\ reading = 0
    /\ search = DeviceSearch_new
    /\ devices \in {D \in SUBSET Addresses : Cardinality(D) <= MaxDevices}
    /\ now = <<0>>
    /\ buf = <<>>
    /\ wr_ptr = <<>>
    /\ raw = <<>>
    /\ sent = <<>>
    /\ log = <<>>
    /\ op = "none"
    /\ seenGE = FALSE
    /\ monotone = TRUE
    /\ hello_count = 0
    /\ m_odd = FALSE
    /\ found = <<>>
    /\ search_res = "none_yet"
    /\ extra_calls = 0
    /\ first_ge = FALSE
    /\ adc_init = <<>>
    /\ banner_adc = <<>>

SearchCall ==
    /\ pc = "search_only"
    /\ \/ search_res \in {"none_yet", "Some"}
       \/ search_res = "None" /\ extra_calls < MaxExtraCalls
    /\ LET r == search_next(search, devices)
       IN  /\ search' = r.state
           /\ search_res' = r.res
           /\ found' = IF r.res = "Some" THEN Append(found, r.device) ELSE found
    /\ extra_calls' = IF search_res = "None" THEN extra_calls + 1 ELSE extra_calls
    /\ op' = "search_next"
    /\ UNCHANGED << pc, reset_res, said_hello, pin_state, led_pin, reading,
                    devices, now, buf, wr_ptr, raw, sent, log, seenGE, monotone,
                    hello_count, m_odd, first_ge,
                    adc_init, banner_adc >>

SearchNext == SearchCall

SearchSpec == SearchInit /\ [][SearchNext]_vars

(***************************************************************************)
(* The formatting of the banner text on its own, for ticks over the whole   *)
(* range of u64 and readings over the whole range of u16.                  *)
(***************************************************************************)
\* u64::MAX, the largest value of ticks(), as decimal digits.
U64Max == <<1, 8, 4, 4, 6, 7, 4, 4, 0, 7, 3, 7, 0, 9, 5, 5, 1, 6, 1, 5>>

\* Values of `time`: zero, the smallest and the largest value of every number
\* of decimal digits a u64 can have, and u64::MAX.
FormatTicks ==
    {<<0>>, U64Max}
    \cup {[i \in 1..n |-> IF i = 1 THEN 1 ELSE 0] : n \in 1..Len(U64Max)}
    \cup {[i \in 1..n |-> 9] : n \in 1..(Len(U64Max) - 1)}

\* Values of `reading: u16`: the ends of every number of decimal digits, the
\* largest value of the 12-bit converter and the one above it, and u16::MAX.
FormatReadings == {0, 9, 10, 99, 100, 999, 1000, 4095, 4096, 9999, 10000, 65535}

FormatInit ==
    /\ pc = "format_only"
    /\ reset_res = "ok"
    /\ said_hello = TRUE
    /\ pin_state = FALSE
    /\ led_pin = FALSE
    /\ reading \in FormatReadings
    /\ search = DeviceSearch_new
    /\ devices = {}
    /\ now \in FormatTicks
    /\ buf = <<>>
    /\ wr_ptr = <<>>
    /\ raw = <<>>
    /\ sent = <<>>
    /\ log = <<>>
    /\ op = "timer_read"
    /\ seenGE = FALSE
    /\ monotone = TRUE
    /\ hello_count = 0
    /\ m_odd = FALSE
    /\ found = <<>>
    /\ search_res = "none_yet"
    /\ extra_calls = 0
    /\ first_ge = FALSE
    /\ adc_init = <<>>
    /\ banner_adc = <<>>

\* let mut text: String<64>; the two writeln!(..).unwrap() on `time` (here
\* now) and `reading`: the text is complete when both lines fit, and the
\* unwrap halts the program when they do not.
FormatBanner ==
    /\ pc = "format_only"
    /\ IF BannerTextLen(now, reading) <= TextCap
       THEN /\ log' = <<"diag_text">>
            /\ pc' = "format_done"
       ELSE /\ log' = log
            /\ pc' = "halted"
    /\ op' = "format"
    /\ banner_adc' = <<reading>>
    /\ UNCHANGED << reset_res, said_hello, pin_state, led_pin, reading, search,
                    devices, now, buf, wr_ptr, raw, sent, seenGE, monotone,
                    hello_count, m_odd, found, search_res, extra_calls,
                    first_ge, adc_init >>

FormatNext == FormatBanner

FormatSpec == FormatInit /\ [][FormatNext]_vars

(***************************************************************************)
(* Properties.                                                             *)
(***************************************************************************)
\* The positions inside the main loop.
LoopPcs == {"check", "banner", "search", "poll", "read", "echo", "adc"}

\* C1: over a run whose timer readings never decrease, the greeting is written
\* on exactly one iteration, the first one whose check reads a tick >=
\* Threshold: an iteration writes it iff it is that iteration, so none before
\* and none after does, and it is written once in all.  (At "banner" the
\* iteration has decided to write it and is about to.)
C1_BannerOnce ==
    (monotone /\ pc \in (LoopPcs \cup {"halted"}) \ {"banner"}) =>
        /\ Logged("hello") <=> first_ge
        /\ hello_count = (IF seenGE THEN 1 ELSE 0)

\* C1 witness: the banner was written on an earlier iteration, and the present
\* iteration read a tick >= Threshold without writing it again.
C1_Witness ==
    /\ monotone
    /\ pc = "poll"
    /\ hello_count = 1
    /\ TickGE(now, Threshold)
    /\ ~Logged("hello")

\* The upper-case letter of an ASCII lower-case letter by the alphabet's table,
\* any other byte itself.
ExpectedEcho(b) ==
    LET lower == [k \in 1..26 |-> 96 + k]
        upper == [k \in 1..26 |-> 64 + k]
    IN  IF \E k \in 1..26 : lower[k] = b
        THEN upper[CHOOSE k \in 1..26 : lower[k] = b]
        ELSE b

\* s is the part of t that starts at its position n + 1.
IsSuffixFrom(s, t, n) == n <= Len(t) /\ s = SubSeq(t, n + 1, Len(t))

\* C2: a chunk read has 1..64 bytes, and the byte offered for echo at each
\* position is the upper case of the received byte when that is an ASCII
\* lower-case letter and the received byte itself otherwise; every slice
\* offered to serial.write is a tail of that chunk.
C2_EchoUppercase ==
    pc = "echo" =>
        /\ Len(raw) \in 1..BufCap
        /\ Len(buf) = Len(raw)
        /\ \A i \in 1..Len(raw) : buf[i] = ExpectedEcho(raw[i])
        /\ \E n \in 0..Len(buf) : IsSuffixFrom(wr_ptr, buf, n)

\* C2 witness: a chunk with a lower-case letter, turned to upper case, and a
\* byte above 127 whose low bits are those of a letter, kept.
C2_Witness ==
    /\ pc = "echo"
    /\ \E i \in 1..Len(raw) : raw[i] = 122 /\ buf[i] = 90
    /\ \E i \in 1..Len(raw) : raw[i] = 225 /\ buf[i] = 225

\* s is a leading part of t.
IsPrefix(s, t) == Len(s) <= Len(t) /\ s = SubSeq(t, 1, Len(s))

\* C3: the bytes the transport accepted during a chunk's echo are, in order, a
\* leading part of the chunk, and what is still to be offered is the rest of
\* it; when the loop has ended they are the whole chunk unless a write failed.
C3_EchoPrefix ==
    pc \in {"echo", "adc"} =>
        /\ IsPrefix(sent, buf)
        /\ sent \o wr_ptr = buf
        /\ (pc = "adc" /\ ~Logged("echo_err")) => sent = buf

\* C3 witness: a two-byte chunk of which the transport accepted the first byte
\* before a write failed.
C3_Witness ==
    /\ pc = "adc"
    /\ Logged("echo_ok")
    /\ Logged("echo_err")
    /\ Len(buf) = 2
    /\ sent = <<buf[1]>>

\* C4: the LED's level is its initial level (low) XOR "the number of echo
\* writes accepted with a length > 0 is odd"; writes accepted with length 0,
\* failed writes, banner writes and reads leave it alone.
C4_LedParity == led_pin = (FALSE # m_odd)

\* C5: once the bus reset has failed the program stays in the notification
\* loop: every step it takes is the write of "Reset failed" (no search_next,
\* no ADC sample, no poll, no read, no echo), and that write can always be
\* taken again.
C5_FatalPath ==
    /\ [](reset_res = "err" => ENABLED ResetFailedWrite)
    /\ [][reset_res = "err" =>
            (pc' = "reset_failed" /\ op' = "write_reset_failed")]_vars

\* C5 witness: the reset failed and the notification has been written.
C5_Witness ==
    /\ reset_res = "err"
    /\ pc = "reset_failed"
    /\ op = "write_reset_failed"

\* The step of the loop body an operation of the log belongs to: 0 the check
\* at its head, 1 the banner, 2 the transport, 3 the ADC.
Phase(e) ==
    CASE e = "check" -> 0
      [] e \in {"hello", "timer_read", "diag_text", "searching", "search_next",
                "device_found", "ok", "odd", "no_devices"} -> 1
      [] e \in {"poll", "read", "echo_ok", "echo_err"} -> 2
      [] e = "adc_read" -> 3

\* C6: within one iteration the operations come in the order banner writes,
\* then poll / read / echo, then the ADC sample: no transport operation is
\* followed by a banner write, no ADC sample by a transport operation.
C6_StepOrder ==
    \A i \in 1..Len(log) : \A j \in i..Len(log) : Phase(log[i]) <= Phase(log[j])

\* C6 witness: an iteration that wrote the banner, echoed a chunk and sampled
\* the ADC.
C6_Witness ==
    /\ Logged("searching")
    /\ Logged("echo_ok")
    /\ Logged("adc_read")

\* C7: the echo loop of an iteration always ends, whatever serial.write
\* returns (Ok(k) with 0 <= k <= offered length, or an error), so the ADC step
\* and the next iteration's check are reached.
C7_EchoLoopEnds == (pc = "echo") ~> (pc = "check")

\* C8 as stated: the bus reset is not invoked before the banner has fired; when
\* it has been invoked the greeting has been written.
C8_ResetAfterBanner == reset_res # "none" => hello_count > 0

\* C8 amended: the bus reset is invoked once, at start-up: the loop is entered,
\* the greeting written and the search started only after it has succeeded,
\* and no step of the loop invokes it.
C8_ResetAtStartup ==
    /\ []((pc \in LoopPcs \/ hello_count > 0 \/ search_res # "none_yet")
            => reset_res = "ok")
    /\ [][reset_res' # reset_res => (pc = "start" /\ reset_res = "none")]_vars

\* C8 witness: the greeting and the diagnostics have been written, the search
\* is about to start, and the reset was done before.
C8_Witness ==
    /\ pc = "search"
    /\ hello_count = 1
    /\ Logged("searching")
    /\ reset_res = "ok"

\* Number of "Device found" lines written in the current iteration.
DeviceLines == Cardinality({i \in 1..Len(log) : log[i] = "device_found"})

\* C9: when the banner's search is over, one "Device found" line has been
\* written for each device on the bus, and the "No Devices found" line exactly
\* when no address was returned.
C9_OneLinePerDevice ==
    (Logged("search_next") /\ pc \in LoopPcs) =>
        /\ DeviceLines = Cardinality(devices)
        /\ Logged("no_devices") <=> (found = <<>>)

\* The order of the tie-break rule: at the lowest bit where two addresses
\* differ, the one with 0 comes first.
Before(a, b) ==
    \E i \in 1..AddrBits :
        /\ a[i] = 0
        /\ b[i] = 1
        /\ \A j \in 1..(i - 1) : a[j] = b[j]

\* C10: on a bus with devices, the calls of search_next return the addresses
\* of the bus one by one in the order of the tie-break rule (the k-th call the
\* k-th address in that order, so each exactly once), never an error, and None
\* exactly when all of them have been returned, also when it is called again.
C10_SearchExhaustive ==
    (pc = "search_only" /\ devices # {}) =>
        /\ search_res # "Err"
        /\ Len(found) <= Cardinality(devices)
        /\ \A k \in 1..Len(found) :
             /\ found[k] \in devices
             /\ Cardinality({d \in devices : Before(d, found[k])}) = k - 1
        /\ (search_res = "None") => Len(found) = Cardinality(devices)
        /\ extra_calls > 0 => search_res = "None"

\* C10 witness: three devices, two of which differ only in the last bit, were
\* all returned, then None, and None again.
C10_Witness ==
    /\ pc = "search_only"
    /\ Cardinality(devices) = 3
    /\ \E a \in devices, b \in devices :
         a # b /\ \A i \in 1..(AddrBits - 1) : a[i] = b[i]
    /\ Len(found) = 3
    /\ search_res = "None"
    /\ extra_calls = MaxExtraCalls

\* C11: after a successful bus reset the program never reaches a terminal
\* state: no error of search_next, of the serial read or write, or of the
\* formatting of a diagnostic line stops the main loop.
C11_OnlyResetIsTerminal ==
    (reset_res = "ok") => (pc # "halted")

\* The number of entries e in the log l.
Count(l, e) == Cardinality({i \in DOMAIN l : l[i] = e})

\* C12: an iteration that has come to its end has sampled the ADC exactly
\* once, as its last step, when the banner had fired by then (the firing
\* iteration included), and not at all otherwise, with or without serial data;
\* no sample is taken before the end of an iteration, and as long as the banner
\* has not fired the reading is still the one taken before the loop.
C12_AdcOncePerFiredIteration ==
    /\ (pc \in (LoopPcs \cup {"halted"}) \ {"check"}) => Count(log, "adc_read") = 0
    /\ (pc = "check" /\ log # <<>>) =>
          /\ Count(log, "adc_read") = (IF said_hello THEN 1 ELSE 0)
          /\ said_hello => log[Len(log)] = "adc_read"
    /\ (pc \in LoopPcs /\ ~said_hello) => reading = adc_init[1]

\* C12 witness: an iteration after the one of the banner, in which poll
\* reported nothing, ended with its one sample, which differs from the one
\* taken before the loop.
C12_Witness ==
    /\ pc = "check"
    /\ said_hello
    /\ ~Logged("hello")
    /\ Logged("poll")
    /\ ~Logged("read")
    /\ Count(log, "adc_read") = 1
    /\ reading # adc_init[1]

\* C13: said_hello is a one-way latch: no step of the program takes it from
\* true to false, whatever the timer reads afterwards (a reading below the
\* threshold after a wrap-around included), and the greeting is written at most
\* once in a run, so the banner does not fire again.
C13_LatchOneWay ==
    /\ [](hello_count <= 1)
    /\ [][said_hello => said_hello']_vars

\* C13 witness: after the banner has fired, the timer went backwards and an
\* iteration's check read a tick below the threshold; the latch is still set
\* and the banner block is skipped.
C13_Witness ==
    /\ pc = "poll"
    /\ op = "timer_read"
    /\ said_hello
    /\ hello_count = 1
    /\ ~monotone
    /\ TickLess(now, Threshold)

\* C14: a failed echo write ends the echoing of its iteration with the unsent
\* bytes left behind: no write follows it in that iteration, and the next
\* iteration starts with nothing pending.  Whenever a write is about to be
\* made, the bytes offered are a non-empty tail of the chunk that the read of
\* this same iteration returned.
C14_SuffixDropped ==
    /\ (pc \in {"check", "banner", "search", "poll", "read"}) =>
          (wr_ptr = <<>> /\ buf = <<>> /\ raw = <<>>)
    /\ (pc = "echo") =>
          /\ Logged("read")
          /\ ~Logged("echo_err")
          /\ raw # <<>>
          /\ Len(buf) = Len(raw)
          /\ \E k \in 1..Len(buf) : wr_ptr = SubSeq(buf, k, Len(buf))
    /\ Logged("echo_err") => pc \in {"adc", "check"}

\* C14 witness: a write failed while a part of the chunk was still unsent,
\* after an earlier write of the same iteration had accepted the part before
\* it, and the loop was left with the unsent part.
C14_Witness ==
    /\ pc = "adc"
    /\ Logged("echo_err")
    /\ Logged("echo_ok")
    /\ wr_ptr # <<>>
    /\ sent # <<>>

\* C15: when poll reported work and the read returned an error or no bytes,
\* the step of the read goes straight on to the ADC step and changes neither
\* pin_state nor the LED; in the state after it no echo write has been made or
\* is pending in this iteration, the read is the last thing the program did
\* (nothing was written about it), and the ADC step, which ends the iteration,
\* can be taken.
C15_EmptyReadSkipsEcho ==
    /\ []((pc = "adc" /\ Logged("read") /\ raw = <<>>) =>
            /\ op = "read"
            /\ log[Len(log)] = "read"
            /\ ~Logged("echo_ok")
            /\ ~Logged("echo_err")
            /\ sent = <<>>
            /\ wr_ptr = <<>>
            /\ ENABLED AdcSample)
    /\ [][(pc = "read" /\ raw' = <<>>) =>
            /\ pc' = "adc"
            /\ pin_state' = pin_state
            /\ led_pin' = led_pin
            /\ m_odd' = m_odd]_vars
    /\ [][(pc = "adc") => (pc' = "check")]_vars

\* C15 witness: an iteration after the banner, with the LED lit by an earlier
\* echo, in which poll reported work and the read returned nothing, has ended
\* with the ADC sample and without an echo write.
C15_Witness ==
    /\ pc = "check"
    /\ Logged("read")
    /\ ~Logged("echo_ok")
    /\ ~Logged("echo_err")
    /\ said_hello
    /\ log[Len(log)] = "adc_read"
    /\ led_pin

\* C16: in every state the pending echo data (wr_ptr) is no longer than the
\* chunk read, which is no longer than the 64-byte buffer; no step other than
\* a read makes the pending data longer; and a read is made only with nothing
\* pending, a suffix left by a failed write having been dropped at the end of
\* its iteration.
C16_PendingBounded ==
    /\ [](Len(wr_ptr) <= Len(raw) /\ Len(raw) <= BufCap)
    /\ []((pc = "read") => (wr_ptr = <<>>))
    /\ [][(pc # "read") => (Len(wr_ptr') <= Len(wr_ptr))]_vars

\* C16 witness: in the echo loop a part of a chunk of two or more bytes has
\* been accepted and the rest, shorter than the chunk, is pending.
C16_Witness ==
    /\ pc = "echo"
    /\ Len(raw) >= 2
    /\ wr_ptr # <<>>
    /\ Len(wr_ptr) < Len(raw)

\* C17: search_next is called only in the iteration in which the banner fires:
\* an iteration whose log holds a call is the one that wrote the greeting, on
\* the first check that read a tick at or above the threshold; a call is only
\* ever about to be made there and with no call made before; and the search
\* state is untouched as long as the greeting has not been written.
C17_SearchOnlyInBanner ==
    /\ Logged("search_next") => (Logged("hello") /\ first_ge)
    /\ (pc = "search") =>
          (Logged("hello") /\ first_ge /\ search_res = "none_yet" /\ found = <<>>)
    /\ (search_res # "none_yet" \/ found # <<>> \/ search # DeviceSearch_new) =>
          hello_count = 1
    /\ Len(found) <= 1

\* C17 witness: an iteration after the one of the banner, with the tick still
\* at or above the threshold, has echoed a chunk and made no call of
\* search_next; the one call of the banner iteration had found a device.
C17_Witness ==
    /\ pc = "adc"
    /\ said_hello
    /\ TickGE(now, Threshold)
    /\ ~Logged("hello")
    /\ ~Logged("search_next")
    /\ Logged("echo_ok")
    /\ search_res = "Some"
    /\ Len(found) = 1

\* C18: the ADC value formatted into the banner is the sample taken before the
\* main loop: when the banner is about to be written the reading is still that
\* sample, and the value the banner reported is that sample, however many
\* iterations ran before the threshold was reached and whatever was sampled
\* afterwards.
C18_BannerReportsStartupSample ==
    /\ (pc = "banner") => (adc_init # <<>> /\ reading = adc_init[1])
    /\ (banner_adc # <<>>) => (banner_adc = adc_init)

\* C18 witness: the banner has just reported the start-up sample 4095, in an
\* iteration that came after one in which a byte was echoed.
C18_Witness ==
    /\ pc = "search"
    /\ banner_adc = <<4095>>
    /\ adc_init = <<4095>>
    /\ m_odd
    /\ led_pin

\* C19: for every tick of 64 bits and every ADC reading of 16 bits the two
\* lines of the banner fit the 64-byte text buffer, so the formatting always
\* ends with the text complete and never halts the program.
C19_BannerFitsU16 ==
    (pc # "format_only") =>
        (pc = "format_done" /\ BannerTextLen(now, reading) <= TextCap)

\* C19, amended: for every tick of 64 bits and every ADC reading up to 9999
\* (the 12-bit converter's 0..4095 among them) the two lines fit the buffer
\* and the formatting ends with the text complete; the formatting halts the
\* program exactly when the tick has 20 digits and the reading 5.
C19_BannerFitsFourDigits ==
    (pc # "format_only") =>
        /\ (reading <= 9999) =>
              (pc = "format_done" /\ BannerTextLen(now, reading) <= TextCap)
        /\ (pc = "halted") <=> (Len(now) = Len(U64Max) /\ reading >= 10000)

\* C19 witness: u64::MAX and the reading 4095 were formatted; the text fills
\* the buffer to its last byte.
C19_Witness ==
    /\ pc = "format_done"
    /\ now = U64Max
    /\ reading = 4095
    /\ BannerTextLen(now, reading) = TextCap

=============================================================================
